---- MODULE Spec2Model ----
(***************************************************************************)
(* Model of server.js: the satisfaction-survey HTTP service.               *)
(*                                                                         *)
(* State: the process's startup phase, the environment (DATABASE_URL      *)
(* present, the store reachable, the store's clock), the rows of table     *)
(* feedback, the POST handlers suspended at `await sql` and the response   *)
(* written by the last step.                                               *)
(*                                                                         *)
(* Text is a sequence of one-character strings, so that trim(), Number()   *)
(* and the date parsing of `${month}-01` are computed, not assumed.        *)
(* Averages are exact fractions [num, den].  A timestamp is the calendar   *)
(* day [y, m, d] it falls on in the store's session time zone.             *)
(***************************************************************************)
EXTENDS Integers, Sequences, FiniteSets, TLC

VARIABLES
    phase,      \* "load" | "initDb" | "listening" | "exited" | "crashed"
    hasUrl,     \* process.env.DATABASE_URL is set
    schema,     \* table feedback (with its constraints) exists
    dbUp,       \* the store answers statements
    now,        \* the store's now(), as a calendar day
    store,      \* the rows of table feedback
    inflight,   \* per connection: the INSERT a POST handler is awaiting
    resp        \* the response written by the last step, NoResp if none

vars == <<phase, hasUrl, schema, dbUp, now, store, inflight, resp>>

-----------------------------------------------------------------------------
(* JavaScript values and coercions                                         *)

Undefined == [t |-> "undefined"]
Null == [t |-> "null"]
NaN == [t |-> "NaN"]
Str(s) == [t |-> "string", s |-> s]
Num(n) == [t |-> "number", n |-> n]

Whitespace == {" ", "\t", "\n"}

Digits == <<"0", "1", "2", "3", "4", "5", "6", "7", "8", "9">>

DigitSet == {Digits[i] : i \in 1..Len(Digits)}

DigitVal(c) == (CHOOSE i \in 1..Len(Digits) : Digits[i] = c) - 1

RECURSIVE TrimStart(_)
TrimStart(s) ==
    IF s # <<>> /\ Head(s) \in Whitespace THEN TrimStart(Tail(s)) ELSE s

RECURSIVE TrimEnd(_)
TrimEnd(s) ==
    IF s # <<>> /\ s[Len(s)] \in Whitespace
    THEN TrimEnd(SubSeq(s, 1, Len(s) - 1))
    ELSE s

\* String.prototype.trim
Trim(s) == TrimEnd(TrimStart(s))

IsDigits(s) == s # <<>> /\ \A i \in 1..Len(s) : s[i] \in DigitSet

RECURSIVE ParseNat(_)
ParseNat(s) ==
    IF s = <<>> THEN 0
    ELSE 10 * ParseNat(SubSeq(s, 1, Len(s) - 1)) + DigitVal(s[Len(s)])

RECURSIVE NatDigits(_)
NatDigits(n) ==
    IF n < 10 THEN <<Digits[n + 1]>>
    ELSE NatDigits(n \div 10) \o <<Digits[(n % 10) + 1]>>

\* Number(v), for the values a JSON body holds (unsigned decimal strings).
ToNumber(v) ==
    CASE v.t = "number" -> v
      [] v.t = "NaN" -> NaN
      [] v.t = "null" -> Num(0)
      [] v.t = "undefined" -> NaN
      [] v.t = "string" ->
            LET x == Trim(v.s)
            IN  IF x = <<>> THEN Num(0)
                ELSE IF IsDigits(x) THEN Num(ParseNat(x))
                ELSE NaN

\* String(v)
StringOf(v) ==
    CASE v.t = "string" -> v.s
      [] v.t = "number" -> NatDigits(v.n)
      [] v.t = "NaN" -> <<"N", "a", "N">>
      [] v.t = "null" -> <<"n", "u", "l", "l">>
      [] v.t = "undefined" -> <<"u", "n", "d", "e", "f", "i", "n", "e", "d">>

Falsy(v) ==
    \/ v.t \in {"undefined", "null", "NaN"}
    \/ v.t = "string" /\ v.s = <<>>
    \/ v.t = "number" /\ v.n = 0

\* v || null
OrNull(v) == IF Falsy(v) THEN Null ELSE v

-----------------------------------------------------------------------------
(* POST /api/feedback: the synchronous part                                *)

required ==
    <<"email", "client_name", "project",
      "reactivity", "deadlines", "deliverables", "professionalism">>

IsMissingNoEmpty(v) == v.t = "undefined" \/ v.t = "null"

\* body[k] === undefined || body[k] === null || body[k] === ""
IsMissing(v) == v.t = "undefined" \/ v.t = "null" \/ (v.t = "string" /\ v.s = <<>>)

\* The index in `required` of the field the loop returns on, 0 if it ends.
FirstMissing(body) ==
    LET miss == {i \in 1..Len(required) : IsMissing(body[required[i]])}
    IN  IF miss = {} THEN 0
        ELSE CHOOSE i \in miss : \A j \in miss : i <= j

MissingFieldError(k) == "Missing field: " \o k

\* The values interpolated into the INSERT statement.
InsertParams(body) ==
    [email |-> Trim(StringOf(body.email)),
     client_name |-> Trim(StringOf(body.client_name)),
     project |-> Trim(StringOf(body.project)),
     reactivity |-> ToNumber(body.reactivity),
     reactivity_suggestion |-> OrNull(body.reactivity_suggestion),
     deadlines |-> ToNumber(body.deadlines),
     deadlines_suggestion |-> OrNull(body.deadlines_suggestion),
     deliverables |-> ToNumber(body.deliverables),
     deliverables_suggestion |-> OrNull(body.deliverables_suggestion),
     professionalism |-> ToNumber(body.professionalism),
     professionalism_suggestion |-> OrNull(body.professionalism_suggestion),
     global_comment |-> OrNull(body.global_comment)]

-----------------------------------------------------------------------------
(* The store: table feedback and its constraints                           *)

ratingCols == <<"reactivity", "deadlines", "deliverables", "professionalism">>

RatingMin == 1

RatingMax == 5

\* Error messages are sequences of words; includes() is a search for a
\* contiguous run of words.
ConnError == <<"Error", "connecting", "to", "database:", "fetch", "failed">>

IntSyntaxError == <<"invalid", "input", "syntax", "for", "type", "integer:", "NaN">>

CheckViolation(col) ==
    <<"new", "row", "for", "relation", "feedback", "violates", "check",
      "constraint", "feedback_" \o col \o "_check">>

UniqueViolation ==
    <<"duplicate", "key", "value", "violates", "unique", "constraint",
      "uniq_client_project">>

\* INT NOT NULL: a parameter that is not an integer is refused on input.
NotInteger(p) == {i \in 1..Len(ratingCols) : p[ratingCols[i]].t # "number"}

ViolatesCheckFromZero(p) ==
    {i \in 1..Len(ratingCols) :
        ~(0 <= p[ratingCols[i]].n /\ p[ratingCols[i]].n <= RatingMax)}

\* CHECK (col BETWEEN 1 AND 5)
ViolatesCheck(p) ==
    {i \in 1..Len(ratingCols) :
        ~(RatingMin <= p[ratingCols[i]].n /\ p[ratingCols[i]].n <= RatingMax)}

ViolatesUniqueNone(p, rows) == FALSE

\* CONSTRAINT uniq_client_project UNIQUE (client_name, project)
ViolatesUnique(p, rows) ==
    \E r \in rows : r.client_name = p.client_name /\ r.project = p.project

Least(S) == CHOOSE i \in S : \A j \in S : i <= j

NewRow(p, t) ==
    [created_at |-> t,
     email |-> p.email,
     client_name |-> p.client_name,
     project |-> p.project,
     reactivity |-> p.reactivity.n,
     reactivity_suggestion |-> p.reactivity_suggestion,
     deadlines |-> p.deadlines.n,
     deadlines_suggestion |-> p.deadlines_suggestion,
     deliverables |-> p.deliverables.n,
     deliverables_suggestion |-> p.deliverables_suggestion,
     professionalism |-> p.professionalism.n,
     professionalism_suggestion |-> p.professionalism_suggestion,
     global_comment |-> p.global_comment]

\* One INSERT statement, atomic in the store: input conversion, then the
\* row's CHECK constraints, then the unique index.
ExecInsert(p, rows, up, t) ==
    IF ~up THEN [ok |-> FALSE, error |-> ConnError, rows |-> rows]
    ELSE IF NotInteger(p) # {}
    THEN [ok |-> FALSE, error |-> IntSyntaxError, rows |-> rows]
    ELSE IF ViolatesCheck(p) # {}
    THEN [ok |-> FALSE,
          error |-> CheckViolation(ratingCols[Least(ViolatesCheck(p))]),
          rows |-> rows]
    ELSE IF ViolatesUnique(p, rows)
    THEN [ok |-> FALSE, error |-> UniqueViolation, rows |-> rows]
    ELSE [ok |-> TRUE, error |-> <<>>, rows |-> rows \cup {NewRow(p, t)}]

-----------------------------------------------------------------------------
(* POST /api/feedback: the reply                                           *)

LowerWord(w) == IF w = "Error" THEN "error" ELSE w

\* msg.toLowerCase()
ToLower(msg) == [i \in 1..Len(msg) |-> LowerWord(msg[i])]

\* msg.includes(pat)
Includes(msg, pat) ==
    \E i \in 0..(Len(msg) - Len(pat)) :
        \A j \in 1..Len(pat) : msg[i + j] = pat[j]

IsDuplicateWrongName(msg) == Includes(msg, <<"uniq_client_email">>)

IsDuplicate(msg) ==
    \/ Includes(msg, <<"uniq_client_project">>)
    \/ Includes(ToLower(msg), <<"duplicate", "key">>)

SavedMessage == "Feedback enregistré."

ConflictMessage == "Ce client a déjà noté ce projet. Merci de choisir un autre projet."

ServerError == "Erreur serveur."

NoResp == [route |-> "none"]

PostReplySwallow(body, res) ==
    [route |-> "feedback", req |-> body, status |-> 200,
     body |-> [ok |-> TRUE, message |-> SavedMessage]]

PostReply(body, res) ==
    IF res.ok
    THEN [route |-> "feedback", req |-> body, status |-> 200,
          body |-> [ok |-> TRUE, message |-> SavedMessage]]
    ELSE IF IsDuplicate(res.error)
    THEN [route |-> "feedback", req |-> body, status |-> 409,
          body |-> [error |-> ConflictMessage]]
    ELSE [route |-> "feedback", req |-> body, status |-> 500,
          body |-> [error |-> ServerError, details |-> res.error]]

-----------------------------------------------------------------------------
(* Dates: `${month}-01`::date and date + INTERVAL '1 month'                *)

Date(y, m, d) == [y |-> y, m |-> m, d |-> d]

IsLeap(y) == (y % 4 = 0 /\ y % 100 # 0) \/ y % 400 = 0

DaysIn(y, m) ==
    IF m = 2 THEN (IF IsLeap(y) THEN 29 ELSE 28)
    ELSE IF m \in {4, 6, 9, 11} THEN 30
    ELSE 31

RECURSIVE SplitDash(_)
SplitDash(s) ==
    LET at == {i \in 1..Len(s) : s[i] = "-"}
    IN  IF at = {} THEN <<s>>
        ELSE LET i == CHOOSE i \in at : \A j \in at : i <= j
             IN  <<SubSeq(s, 1, i - 1)>> \o SplitDash(SubSeq(s, i + 1, Len(s)))

\* The store's date input for ISO text: year-month-day, or fails.
ParseDate(s) ==
    LET f == SplitDash(s)
    IN  IF /\ Len(f) = 3
           /\ IsDigits(f[1]) /\ Len(f[1]) = 4
           /\ IsDigits(f[2]) /\ Len(f[2]) <= 2
           /\ IsDigits(f[3]) /\ Len(f[3]) <= 2
           /\ ParseNat(f[2]) \in 1..12
           /\ ParseNat(f[3]) \in 1..DaysIn(ParseNat(f[1]), ParseNat(f[2]))
        THEN [ok |-> TRUE,
              date |-> Date(ParseNat(f[1]), ParseNat(f[2]), ParseNat(f[3]))]
        ELSE [ok |-> FALSE, date |-> Date(0, 0, 0)]

DateSyntaxError == <<"invalid", "input", "syntax", "for", "type", "date">>

\* date + INTERVAL '1 month'
AddMonth(dt) ==
    LET y == IF dt.m = 12 THEN dt.y + 1 ELSE dt.y
        m == IF dt.m = 12 THEN 1 ELSE dt.m + 1
        d == IF dt.d <= DaysIn(y, m) THEN dt.d ELSE DaysIn(y, m)
    IN  Date(y, m, d)

DateLT(a, b) ==
    \/ a.y < b.y
    \/ a.y = b.y /\ a.m < b.m
    \/ a.y = b.y /\ a.m = b.m /\ a.d < b.d

InWindowClosed(created, start) ==
    ~DateLT(created, start) /\ ~DateLT(AddMonth(start), created)

\* created_at >= start AND created_at < start + 1 month
InWindow(created, start) ==
    ~DateLT(created, start) /\ DateLT(created, AddMonth(start))

-----------------------------------------------------------------------------
(* GET /api/stats: the query                                               *)

Frac(n, d) == [num |-> n, den |-> d]

FracLT(a, b) == a.num * b.den < b.num * a.den

RECURSIVE SumCol(_, _)
SumCol(rows, col) ==
    IF rows = {} THEN 0
    ELSE LET r == CHOOSE r \in rows : TRUE
         IN  r[col] + SumCol(rows \ {r}, col)

\* AVG(col)
AvgCol(rows, col) == Frac(SumCol(rows, col), Cardinality(rows))

RowTotalIntDiv(r) ==
    Frac((r.reactivity + r.deadlines + r.deliverables + r.professionalism) \div 4, 1)

\* (reactivity+deadlines+deliverables+professionalism)/4.0
RowTotal(r) ==
    Frac(r.reactivity + r.deadlines + r.deliverables + r.professionalism, 4)

\* AVG over the rows of a group of a per-row fraction (one denominator).
RECURSIVE SumTotal(_)
SumTotal(rows) ==
    IF rows = {} THEN 0
    ELSE LET r == CHOOSE r \in rows : TRUE
         IN  RowTotal(r).num + SumTotal(rows \ {r})

AvgTotal(rows) ==
    LET r0 == CHOOSE r \in rows : TRUE
    IN  Frac(SumTotal(rows), RowTotal(r0).den * Cardinality(rows))

\* One output row of GROUP BY project.
GroupRow(project, rows) ==
    [project |-> project,
     responses |-> Cardinality(rows),
     avg_reactivity |-> AvgCol(rows, "reactivity"),
     avg_deadlines |-> AvgCol(rows, "deadlines"),
     avg_deliverables |-> AvgCol(rows, "deliverables"),
     avg_professionalism |-> AvgCol(rows, "professionalism"),
     avg_total |-> AvgTotal(rows)]

Groups(rows, start) ==
    LET win == {r \in rows : InWindow(r.created_at, start)}
    IN  {GroupRow(p, {r \in win : r.project = p}) : p \in {r.project : r \in win}}

\* ORDER BY avg_total ASC: every order of the groups the clause allows.
InOrder(a, b) == ~FracLT(b.avg_total, a.avg_total)

Orderings(groups) ==
    LET n == Cardinality(groups)
    IN  {s \in [1..n -> groups] :
            /\ \A i, j \in 1..n : i # j => s[i] # s[j]
            /\ \A i, j \in 1..n : i < j => InOrder(s[i], s[j])}

-----------------------------------------------------------------------------
(* GET /api/stats: the action plan                                         *)

threshold == 4

BelowOrAt(avg) == avg.num <= threshold * avg.den

\* r.avg_x < threshold
Below(avg) == avg.num < threshold * avg.den

RecReactivity == "Réactivité: définir SLA (ex: réponse < 24h), point hebdo, canal unique."

RecDeadlines == "Délais: jalons, buffer, suivi régulier, gestion risques."

RecDeliverables == "Livrables: checklist qualité, revue interne, templates."

RecProfessionalism == "Pro/Innovation: REX mensuel, formation, partage bonnes pratiques."

RecommendationsSwapped(r) ==
    (IF Below(r.avg_reactivity) THEN <<RecReactivity>> ELSE <<>>)
    \o (IF Below(r.avg_deadlines) THEN <<RecDeliverables>> ELSE <<>>)
    \o (IF Below(r.avg_deliverables) THEN <<RecDeadlines>> ELSE <<>>)
    \o (IF Below(r.avg_professionalism) THEN <<RecProfessionalism>> ELSE <<>>)

Recommendations(r) ==
    (IF Below(r.avg_reactivity) THEN <<RecReactivity>> ELSE <<>>)
    \o (IF Below(r.avg_deadlines) THEN <<RecDeadlines>> ELSE <<>>)
    \o (IF Below(r.avg_deliverables) THEN <<RecDeliverables>> ELSE <<>>)
    \o (IF Below(r.avg_professionalism) THEN <<RecProfessionalism>> ELSE <<>>)

\* rows.map(...).filter(Boolean)
RECURSIVE ActionPlan(_)
ActionPlan(rows) ==
    IF rows = <<>> THEN <<>>
    ELSE LET a == Recommendations(Head(rows))
         IN  (IF a # <<>>
              THEN <<[project |-> Head(rows).project, recommendations |-> a]>>
              ELSE <<>>) \o ActionPlan(Tail(rows))

MonthRequired == "month is required, e.g. 2026-01"

StatsError(month, msg) ==
    [route |-> "stats", req |-> month, status |-> 500,
     body |-> [error |-> ServerError, details |-> msg]]

\* The responses GET /api/stats?month=... can write.
StatsReplies(month, rows, up) ==
    IF Falsy(month)
    THEN {[route |-> "stats", req |-> month, status |-> 400,
           body |-> [error |-> MonthRequired]]}
    ELSE LET start == StringOf(month) \o <<"-", "0", "1">>
             parsed == ParseDate(start)
         IN  IF ~up THEN {StatsError(month, ConnError)}
             ELSE IF ~parsed.ok THEN {StatsError(month, DateSyntaxError)}
             ELSE {[route |-> "stats", req |-> month, status |-> 200,
                    body |-> [month |-> month, start |-> start, projects |-> s,
                              action_plan |-> ActionPlan(s)]] :
                        s \in Orderings(Groups(rows, parsed.date))}

-----------------------------------------------------------------------------
(* Startup                                                                 *)

Idle == [t |-> "idle"]

\* if (!process.env.DATABASE_URL) process.exit(1)
AfterEnvCheck(url) == IF url THEN "initDb" ELSE "exited"

AfterInitDbSwallowed(ok) == "listening"

\* await initDb(); app.listen(...): a rejected initDb() ends the function.
AfterInitDb(ok) == IF ok THEN "listening" ELSE "crashed"

CheckEnv ==
    /\ phase = "load"
    /\ phase' = AfterEnvCheck(hasUrl)
    /\ UNCHANGED <<hasUrl, schema, dbUp, now, store, inflight, resp>>

\* CREATE TABLE IF NOT EXISTS succeeds, the listener starts.
InitDbDone ==
    /\ phase = "initDb"
    /\ dbUp
    /\ schema' = TRUE
    /\ phase' = AfterInitDb(TRUE)
    /\ UNCHANGED <<hasUrl, dbUp, now, store, inflight, resp>>

InitDbFail ==
    /\ phase = "initDb"
    /\ ~dbUp
    /\ phase' = AfterInitDb(FALSE)
    /\ UNCHANGED <<hasUrl, schema, dbUp, now, store, inflight, resp>>

-----------------------------------------------------------------------------
(* Environment: the store goes away and comes back, time passes            *)

DbDown ==
    /\ dbUp
    /\ dbUp' = FALSE
    /\ resp' = NoResp
    /\ UNCHANGED <<phase, hasUrl, schema, now, store, inflight>>

DbBack ==
    /\ ~dbUp
    /\ dbUp' = TRUE
    /\ resp' = NoResp
    /\ UNCHANGED <<phase, hasUrl, schema, now, store, inflight>>

Tick(day) ==
    /\ DateLT(now, day)
    /\ now' = day
    /\ resp' = NoResp
    /\ UNCHANGED <<phase, hasUrl, schema, dbUp, store, inflight>>

-----------------------------------------------------------------------------
(* Request handlers                                                        *)

\* POST /api/feedback up to `await sql`: the required check, then the
\* handler is suspended on connection c, holding the body.
PostStart(c, body) ==
    /\ phase = "listening"
    /\ inflight[c] = Idle
    /\ IF FirstMissing(body) # 0
       THEN /\ resp' = [route |-> "feedback", req |-> body, status |-> 400,
                        body |-> [error |->
                            MissingFieldError(required[FirstMissing(body)])]]
            /\ UNCHANGED inflight
       ELSE /\ inflight' = [inflight EXCEPT ![c] = body]
            /\ resp' = NoResp
    /\ UNCHANGED <<phase, hasUrl, schema, dbUp, now, store>>

\* The store runs the statement of connection c and the handler replies.
PostInsert(c) ==
    /\ phase = "listening"
    /\ inflight[c] # Idle
    /\ LET res == ExecInsert(InsertParams(inflight[c]), store, dbUp, now)
       IN  /\ store' = res.rows
           /\ resp' = PostReply(inflight[c], res)
    /\ inflight' = [inflight EXCEPT ![c] = Idle]
    /\ UNCHANGED <<phase, hasUrl, schema, dbUp, now>>

\* GET /api/stats?month=...
GetStats(month) ==
    /\ phase = "listening"
    /\ resp' \in StatsReplies(month, store, dbUp)
    /\ UNCHANGED <<phase, hasUrl, schema, dbUp, now, store, inflight>>

StoreVersion == "PostgreSQL"

\* GET /api/health
GetHealth ==
    /\ phase = "listening"
    /\ resp' = IF dbUp
               THEN [route |-> "health", req |-> Null, status |-> 200,
                     body |-> [ok |-> TRUE, version |-> StoreVersion]]
               ELSE [route |-> "health", req |-> Null, status |-> 500,
                     body |-> [ok |-> FALSE, error |-> ConnError]]
    /\ UNCHANGED <<phase, hasUrl, schema, dbUp, now, store, inflight>>

-----------------------------------------------------------------------------
(* Inputs                                                                  *)

MaxInflight == 2

Conns == 1..MaxInflight

Body(e, c, p, rt, cm) ==
    [email |-> e, client_name |-> c, project |-> p,
     reactivity |-> rt[1], deadlines |-> rt[2],
     deliverables |-> rt[3], professionalism |-> rt[4],
     reactivity_suggestion |-> Undefined, deadlines_suggestion |-> Undefined,
     deliverables_suggestion |-> Undefined,
     professionalism_suggestion |-> Undefined,
     global_comment |-> cm]

Five == <<Num(5), Num(5), Num(5), Num(5)>>

Mail == Str(<<" ", "e", "@", "x">>)

\* Concurrent submissions: a client and a project written with and without
\* surrounding whitespace, a second client given as a number, ratings that
\* pass, that differ, that are out of range and that are not numbers; three
\* bodies lack a field.
ConcurrentBodies ==
    {Body(Mail, Str(<<"a">>), Str(<<"p">>), Five, Undefined),
     Body(Mail, Str(<<" ", "a", "\t">>), Str(<<"p">>),
          <<Str(<<"4">>), Num(5), Num(5), Num(5)>>, Undefined),
     Body(Mail, Str(<<"a">>), Str(<<"p", " ">>), Five, Str(<<>>)),
     Body(Mail, Str(<<"a">>), Str(<<"p">>),
          <<Num(5), Num(0), Num(5), Num(5)>>, Undefined),
     Body(Mail, Str(<<"a">>), Str(<<"p">>),
          <<Num(5), Num(5), Num(5), Str(<<"x">>)>>, Undefined),
     Body(Mail, Num(7), Str(<<"p">>), Five, Str(<<"o", "k">>)),
     Body(Mail, Str(<<"7">>), Str(<<"p">>),
          <<Num(5), Num(5), Num(6), Num(5)>>, Undefined),
     Body(Undefined, Str(<<"a">>), Str(<<"p">>), Five, Undefined),
     Body(Mail, Str(<<"a">>), Str(<<>>), Five, Undefined),
     Body(Mail, Str(<<"a">>), Str(<<"p">>),
          <<Num(5), Num(5), Null, Num(9)>>, Undefined)}

Day1 == Date(2026, 1, 15)

ConcurrentMonths == {Str(<<"2", "0", "2", "6", "-", "0", "1">>), Undefined}

Init ==
    /\ phase = "load"
    /\ hasUrl \in BOOLEAN
    /\ schema = FALSE
    /\ dbUp \in BOOLEAN
    /\ now = Day1
    /\ store = {}
    /\ inflight = [c \in Conns |-> Idle]
    /\ resp = NoResp

Next ==
    \/ CheckEnv
    \/ InitDbDone
    \/ InitDbFail
    \/ DbDown
    \/ DbBack
    \/ \E c \in Conns, body \in ConcurrentBodies : PostStart(c, body)
    \/ \E c \in Conns : PostInsert(c)
    \/ \E month \in ConcurrentMonths : GetStats(month)
    \/ GetHealth

Spec == Init /\ [][Next]_vars

-----------------------------------------------------------------------------
(* Validation: one connection, bodies with every set of required fields    *)
(* undefined, null or empty, and bodies whose odd values are present       *)

Blank(body, K, v) ==
    [f \in DOMAIN body |->
        IF \E i \in K : required[i] = f THEN v ELSE body[f]]

Plain == Body(Mail, Str(<<"a">>), Str(<<"p">>), Five, Undefined)

ValidationBodies ==
    {Blank(Plain, K, v) :
        K \in (SUBSET (1..Len(required))) \ {{}},
        v \in {Undefined, Null, Str(<<>>)}}
    \cup {Blank(Blank(Plain, {2, 5}, Null), {3, 7}, Str(<<>>)),
          Plain,
          Body(Mail, Str(<<" ">>), Str(<<"p">>), Five, Undefined),
          Body(Str(<<"\t">>), Str(<<"b">>), Num(0),
               <<Num(0), Str(<<" ">>), Num(5), Num(5)>>, Undefined)}

NextValidation ==
    \/ CheckEnv
    \/ InitDbDone
    \/ InitDbFail
    \/ DbDown
    \/ DbBack
    \/ \E body \in ValidationBodies : PostStart(1, body)
    \/ PostInsert(1)
    \/ GetHealth

SpecValidation == Init /\ [][NextValidation]_vars

-----------------------------------------------------------------------------
(* Statistics: one connection, three (client, project) pairs, three        *)
(* rating vectors, three days around two month ends                        *)

StatsBodies ==
    {Body(Mail, pr[1], pr[2], rt, Undefined) :
        pr \in {<<Str(<<"a">>), Str(<<"p">>)>>,
                <<Str(<<"b">>), Str(<<"p">>)>>,
                <<Str(<<"a">>), Str(<<"q">>)>>},
        rt \in {<<Num(3), Num(5), Num(4), Num(5)>>,
                <<Num(5), Num(3), Num(5), Num(4)>>,
                <<Num(5), Num(5), Num(3), Num(3)>>}}

ClockDays == {Date(2025, 12, 31), Date(2026, 1, 1), Date(2026, 2, 1)}

Text202512 == Str(<<"2", "0", "2", "5", "-", "1", "2">>)

Text202601 == Str(<<"2", "0", "2", "6", "-", "0", "1">>)

StatsMonths ==
    {Text202512, Text202601,
     Str(<<"2", "0", "2", "6", "-", "1", "3">>),
     Str(<<>>),
     Undefined}

InitStats ==
    /\ phase = "load"
    /\ hasUrl = TRUE
    /\ schema = FALSE
    /\ dbUp = TRUE
    /\ now = Date(2025, 12, 31)
    /\ store = {}
    /\ inflight = [c \in Conns |-> Idle]
    /\ resp = NoResp

NextStats ==
    \/ CheckEnv
    \/ InitDbDone
    \/ \E day \in ClockDays : Tick(day)
    \/ \E body \in StatsBodies : PostStart(1, body)
    \/ PostInsert(1)
    \/ \E month \in StatsMonths : GetStats(month)

SpecStats == InitStats /\ [][NextStats]_vars

-----------------------------------------------------------------------------
(* Properties of POST /api/feedback and of startup, under Spec            *)

SamePair(r, q) == r.client_name = q.client_name /\ r.project = q.project

\* The (client_name, project) pair a body is stored under.
PairOf(body) ==
    [client_name |-> Trim(StringOf(body.client_name)),
     project |-> Trim(StringOf(body.project))]

Persisted(body, rows) == \E r \in rows : SamePair(r, PairOf(body))

\* Connection c's statement is run and answered in this step.
Answered(c) == inflight[c] # Idle /\ inflight'[c] = Idle

RatingOf(v) == ToNumber(v)

InRange(v) ==
    RatingOf(v).t = "number" /\ RatingOf(v).n >= 1 /\ RatingOf(v).n <= 5

RatingsInRange(body) ==
    /\ InRange(body.reactivity)
    /\ InRange(body.deadlines)
    /\ InRange(body.deliverables)
    /\ InRange(body.professionalism)

\* C1: no two persisted records have the same (client_name, project) pair,
\* compared on the stored (trimmed) values, whatever the interleaving of
\* the submissions.
C1_UniquePair ==
    \A r, q \in store :
        /\ SamePair(r, q) => r = q
        /\ r.client_name = Trim(r.client_name)
        /\ r.project = Trim(r.project)

\* Two submissions of one pair were in flight together: one has just been
\* persisted, the other is still awaiting the store.
C1_Witness ==
    /\ resp.route = "feedback"
    /\ resp.status = 200
    /\ \E c \in Conns :
        /\ inflight[c] # Idle
        /\ PairOf(inflight[c]) = PairOf(resp.req)
        /\ inflight[c] # resp.req
        /\ Persisted(inflight[c], store)

\* C2 as claimed: a submission with all required fields whose pair is
\* already persisted is answered 409 with the conflict message and leaves
\* the store unchanged, whatever its other fields (read with the store
\* reachable).
C2_Original ==
    [][\A c \in Conns :
        (Answered(c) /\ dbUp /\ Persisted(inflight[c], store))
            => /\ resp'.status = 409
               /\ resp'.body = [error |-> ConflictMessage]
               /\ store' = store]_vars

\* C2 amended: ... provided the four ratings coerce to integers in 1..5 and
\* the store is reachable; otherwise the answer is 500; the store is
\* unchanged in both cases.
C2_Conflict ==
    [][\A c \in Conns :
        (Answered(c) /\ Persisted(inflight[c], store))
            => /\ store' = store
               /\ resp'.route = "feedback"
               /\ resp'.req = inflight[c]
               /\ IF dbUp /\ RatingsInRange(inflight[c])
                  THEN /\ resp'.status = 409
                       /\ resp'.body = [error |-> ConflictMessage]
                  ELSE resp'.status = 500]_vars

\* A resubmission of a persisted pair, written differently and with other
\* ratings, has been answered 409.
C2_Witness ==
    /\ resp.route = "feedback"
    /\ resp.status = 409
    /\ \E r \in store :
        /\ SamePair(r, PairOf(resp.req))
        /\ r.reactivity # RatingOf(resp.req.reactivity).n
        /\ StringOf(resp.req.client_name) # r.client_name

\* C3 as claimed: every submission with a rating that coerces outside
\* 1..5 is answered 500, and every persisted record has its four ratings
\* in 1..5.
C3_Original ==
    /\ \A r \in store : \A i \in 1..Len(ratingCols) : r[ratingCols[i]] \in 1..5
    /\ (resp.route = "feedback" /\ ~RatingsInRange(resp.req))
            => resp.status = 500

\* C3 amended: every submission with all seven required fields present and
\* a rating that coerces outside 1..5 is answered 500 with error and
\* details and no row is persisted; every persisted record has its four
\* ratings in 1..5.
C3_RangeRejected ==
    /\ [](\A r \in store : \A i \in 1..Len(ratingCols) : r[ratingCols[i]] \in 1..5)
    /\ [][\A c \in Conns :
            (Answered(c) /\ ~RatingsInRange(inflight[c]))
                => /\ store' = store
                   /\ resp'.route = "feedback"
                   /\ resp'.req = inflight[c]
                   /\ resp'.status = 500
                   /\ resp'.body.error = ServerError
                   /\ DOMAIN resp'.body = {"error", "details"}]_vars

\* A submission with a rating of 0 has been answered 500
\* by a reachable store that holds other rows.
C3_Witness ==
    /\ resp.route = "feedback"
    /\ resp.status = 500
    /\ dbUp
    /\ RatingOf(resp.req.deadlines).n = 0
    /\ store # {}

\* C5: the store changes only by gaining exactly one record, exactly when a
\* POST /api/feedback is answered 200; every other answer of the three
\* routes leaves it unchanged.
C5_StoreFrame ==
    [][/\ (store' # store) =>
            /\ resp'.route = "feedback" /\ resp'.status = 200
            /\ \E r \in store' : r \notin store /\ store' = store \cup {r}
       /\ (resp'.route = "feedback" /\ resp'.status = 200) =>
            /\ store \subseteq store'
            /\ Cardinality(store') = Cardinality(store) + 1
       /\ (resp'.route \in {"stats", "health"}
            \/ (resp'.route = "feedback" /\ resp'.status \in {400, 409, 500}))
            => store' = store
       /\ resp'.route = "feedback" => resp'.status \in {200, 400, 409, 500}]_vars

\* A second record has just been persisted.
C5_Witness ==
    /\ resp.route = "feedback"
    /\ resp.status = 200
    /\ Cardinality(store) = 2

\* C10: the listener is up only after initDb has succeeded; without the
\* connection string, or once initDb has failed, the process never listens
\* and serves nothing.
C10_Startup ==
    /\ [](phase = "listening" => hasUrl /\ schema)
    /\ [](phase # "listening" =>
            resp = NoResp /\ store = {} /\ \A c \in Conns : inflight[c] = Idle)
    /\ [][(phase \in {"exited", "crashed"}) => (phase' = phase)]_vars
    /\ [][(phase' = "listening" /\ phase # "listening")
            => (phase = "initDb" /\ dbUp /\ schema')]_vars

\* A request has been served after a successful initDb.
C10_Witness == phase = "listening" /\ schema /\ resp # NoResp

-----------------------------------------------------------------------------
(* Properties of the required check, under SpecValidation                  *)

Absent(v) == v = Undefined \/ v = Null \/ v = Str(<<>>)

FieldOrder ==
    <<"email", "client_name", "project",
      "reactivity", "deadlines", "deliverables", "professionalism">>

HasAbsent(body) == \E i \in 1..7 : Absent(body[FieldOrder[i]])

FirstAbsent(body) ==
    FieldOrder[CHOOSE i \in 1..7 :
        /\ Absent(body[FieldOrder[i]])
        /\ \A j \in 1..(i - 1) : ~Absent(body[FieldOrder[j]])]

\* C4: a submission in which a required field is undefined, null or the
\* empty string is answered 400 with "Missing field: <first missing field>",
\* no insert is attempted and the store is unchanged.
C4_MissingField ==
    /\ [](\A c \in Conns : inflight[c] # Idle => ~HasAbsent(inflight[c]))
    /\ [][(resp'.route = "feedback" /\ HasAbsent(resp'.req))
            => /\ resp'.status = 400
               /\ resp'.body = [error |-> "Missing field: " \o FirstAbsent(resp'.req)]
               /\ inflight' = inflight
               /\ store' = store]_vars

\* With a row stored, a body lacking project, deliverables and others has
\* been answered 400 naming client_name, the first of them.
C4_Witness ==
    /\ resp.route = "feedback"
    /\ resp.status = 400
    /\ resp.body.error = "Missing field: client_name"
    /\ Absent(resp.req.project)
    /\ Absent(resp.req.professionalism)
    /\ ~Absent(resp.req.email)
    /\ store # {}

-----------------------------------------------------------------------------
(* Properties of GET /api/stats, under SpecStats                           *)

Ok200 == resp.route = "stats" /\ resp.status = 200

Indexes(s) == 1..Len(s)

Dimensions == <<"avg_reactivity", "avg_deadlines", "avg_deliverables", "avg_professionalism">>

\* avg < 4.0
Under4(avg) == 4 * avg.den > avg.num

Underperforming(row) == {i \in 1..4 : Under4(row[Dimensions[i]])}

\* C6: a project is in action_plan iff it is in projects with one of its
\* four averages strictly below 4.0; no entry has an empty list.
C6_ActionPlanIff ==
    Ok200 =>
        LET rows == resp.body.projects
            plan == resp.body.action_plan
        IN  /\ \A i \in Indexes(rows) :
                (Underperforming(rows[i]) # {})
                    <=> (\E k \in Indexes(plan) : plan[k].project = rows[i].project)
            /\ \A k \in Indexes(plan) :
                /\ \E i \in Indexes(rows) : rows[i].project = plan[k].project
                /\ plan[k].recommendations # <<>>

\* A project with two averages of exactly 4.0 and none below is listed but
\* left out of a non-empty action plan.
C6_Witness ==
    /\ Ok200
    /\ resp.body.action_plan # <<>>
    /\ \E i \in Indexes(resp.body.projects) :
        LET row == resp.body.projects[i]
        IN  /\ row.avg_reactivity.num = 4 * row.avg_reactivity.den
            /\ Underperforming(row) = {}
            /\ \A k \in Indexes(resp.body.action_plan) :
                    resp.body.action_plan[k].project # row.project

SpecTexts ==
    <<"Responsiveness: define an SLA (e.g., response < 24h), weekly check-in, single channel.",
      "Deadlines: milestones, buffer, regular tracking, risk management.",
      "Deliverables: quality checklist, internal review, templates.",
      "Professionalism/Innovation: monthly retrospective, training, best-practice sharing.">>

SourceTexts ==
    <<"Réactivité: définir SLA (ex: réponse < 24h), point hebdo, canal unique.",
      "Délais: jalons, buffer, suivi régulier, gestion risques.",
      "Livrables: checklist qualité, revue interne, templates.",
      "Pro/Innovation: REX mensuel, formation, partage bonnes pratiques.">>

\* Each entry lists one text per underperforming dimension of its project,
\* in the order of the dimensions, and nothing else.
OnePerDimension(texts) ==
    Ok200 =>
        \A k \in Indexes(resp.body.action_plan) :
            \E i \in Indexes(resp.body.projects) :
                LET row == resp.body.projects[i]
                    recs == resp.body.action_plan[k].recommendations
                IN  /\ row.project = resp.body.action_plan[k].project
                    /\ Len(recs) = Cardinality(Underperforming(row))
                    /\ {recs[n] : n \in Indexes(recs)}
                            = {texts[d] : d \in Underperforming(row)}
                    /\ \A m, n \in Indexes(recs) :
                        \A d, e \in Underperforming(row) :
                            (recs[m] = texts[d] /\ recs[n] = texts[e] /\ m < n)
                                => d < e

\* C7 as claimed: the recommendations of a project are exactly one string
\* per dimension below 4.0, each the English text of the interface
\* description.
C7_Original == OnePerDimension(SpecTexts)

\* C7 amended: the recommendations of a project are exactly one string per
\* dimension below 4.0, each the text the handler pushes for it.
C7_Recommendations == OnePerDimension(SourceTexts)

\* One action plan holds an entry with only the deliverables text (from two
\* records) and an entry with only the deadlines text.
C7_Witness ==
    /\ Ok200
    /\ \E k, n \in Indexes(resp.body.action_plan) :
        /\ resp.body.action_plan[k].recommendations = <<SourceTexts[3]>>
        /\ resp.body.action_plan[n].recommendations = <<SourceTexts[2]>>

PlusF(a, b) == Frac(a.num * b.den + b.num * a.den, a.den * b.den)

SameF(a, b) == a.num * b.den = b.num * a.den

MeanOfFour(row) ==
    LET sum == PlusF(PlusF(row.avg_reactivity, row.avg_deadlines),
                     PlusF(row.avg_deliverables, row.avg_professionalism))
    IN  Frac(sum.num, 4 * sum.den)

\* C8: projects are listed by non-decreasing overall average, and each
\* avg_total equals the mean of the project's four dimension averages.
C8_OrderAndMean ==
    Ok200 =>
        LET rows == resp.body.projects
        IN  /\ \A i, j \in Indexes(rows) :
                i < j => rows[i].avg_total.num * rows[j].avg_total.den
                            <= rows[j].avg_total.num * rows[i].avg_total.den
            /\ \A i \in Indexes(rows) :
                /\ rows[i].avg_total.den > 0
                /\ SameF(rows[i].avg_total, MeanOfFour(rows[i]))

\* Two projects are listed, the first with a strictly lower overall average
\* that is no whole number, one of them from two records.
C8_Witness ==
    /\ Ok200
    /\ Len(resp.body.projects) = 2
    /\ FracLT(resp.body.projects[1].avg_total, resp.body.projects[2].avg_total)
    /\ resp.body.projects[1].avg_total.num % resp.body.projects[1].avg_total.den # 0
    /\ \E i \in 1..2 : resp.body.projects[i].responses = 2

WellFormed ==
    {[text |-> Text202512, y |-> 2025, m |-> 12],
     [text |-> Text202601, y |-> 2026, m |-> 1]}

InMonth(r, w) == r.created_at.y = w.y /\ r.created_at.m = w.m

\* C9: for a well-formed month the projects are those with a record created
\* in that calendar month, each with the number of such records; a record
\* of the first day of the next month is left out, and a month without
\* records gives empty projects and action_plan.
C9_MonthWindow ==
    \A w \in WellFormed :
        (Ok200 /\ resp.req = w.text) =>
            LET rows == resp.body.projects
                win == {r \in store : InMonth(r, w)}
            IN  /\ {rows[i].project : i \in Indexes(rows)} = {r.project : r \in win}
                /\ Len(rows) = Cardinality({r.project : r \in win})
                /\ \A i \in Indexes(rows) :
                    rows[i].responses
                        = Cardinality({r \in win : r.project = rows[i].project})
                /\ win = {} => rows = <<>> /\ resp.body.action_plan = <<>>

\* December 2025 is reported from its one record while the store also
\* holds a record of 1 January 2026.
C9_Witness ==
    /\ Ok200
    /\ resp.req = Text202512
    /\ Len(resp.body.projects) = 1
    /\ \E r \in store : r.created_at = Date(2026, 1, 1)
    /\ \E r \in store : r.created_at = Date(2025, 12, 31)

====
